---------------------------- MODULE Spec2Model ----------------------------
(***************************************************************************)
(* Model of the result classification and JSON serialisation layer of      *)
(* nominatim.api.v1: get_label_tag (classtypes.py) and the three emitters  *)
(* format_base_json, format_base_geojson and format_base_geocodejson with  *)
(* their address projections (format_json.py).                             *)
(*                                                                         *)
(* Conventions.  A Python str is a sequence of one-character strings, so   *)
(* that lower(), replace() and concatenation are computed and not assumed. *)
(* An Optional value is a sequence of length at most one: None is <<>> and *)
(* a present value v is <<v>>.  A dict is a function; an insertion-ordered *)
(* dict that is iterated is a sequence of <<key, value>> pairs.  The       *)
(* JsonWriter is the sequence of the calls made on it.                     *)
(***************************************************************************)
EXTENDS Integers, Sequences, FiniteSets, TLC

VARIABLES call, pc, idx, out, ret

vars == <<call, pc, idx, out, ret>>

(***************************************************************************)
(* Bounds of the model.                                                    *)
(***************************************************************************)
MaxRank == 30
MaxResults == 2
MaxRows == 2

(***************************************************************************)
(* String literals of the two source files.                                *)
(***************************************************************************)
s_boundary == <<"b","o","u","n","d","a","r","y">>
s_administrative == <<"a","d","m","i","n","i","s","t","r","a","t","i","v","e">>
s_postal_code == <<"p","o","s","t","a","l","_","c","o","d","e">>
s_postcode == <<"p","o","s","t","c","o","d","e">>
s_yes == <<"y","e","s">>
s_place == <<"p","l","a","c","e">>
s_house_number == <<"h","o","u","s","e","_","n","u","m","b","e","r">>
s_house_name == <<"h","o","u","s","e","_","n","a","m","e">>
s_country_code == <<"c","o","u","n","t","r","y","_","c","o","d","e">>
s_road == <<"r","o","a","d">>
s_amenity == <<"a","m","e","n","i","t","y">>
s_restaurant == <<"r","e","s","t","a","u","r","a","n","t">>
s_highway == <<"h","i","g","h","w","a","y">>
s_residential == <<"r","e","s","i","d","e","n","t","i","a","l">>
s_city == <<"c","i","t","y">>
s_housenumber == <<"h","o","u","s","e","n","u","m","b","e","r">>
s_text == <<"t","e","x","t">>
s_kml == <<"k","m","l">>
s_geojson == <<"g","e","o","j","s","o","n">>
s_svg == <<"s","v","g">>
s_geo == <<"g","e","o">>
s_geometry == <<"g","e","o","m","e","t","r","y">>
s_locality == <<"l","o","c","a","l","i","t","y">>
s_country == <<"c","o","u","n","t","r","y">>
s_state == <<"s","t","a","t","e">>
s_county == <<"c","o","u","n","t","y">>
s_district == <<"d","i","s","t","r","i","c","t">>
s_street == <<"s","t","r","e","e","t">>
s_house == <<"h","o","u","s","e">>
s_type == <<"t","y","p","e">>
s_addresstype == <<"a","d","d","r","e","s","s","t","y","p","e">>
s_address == <<"a","d","d","r","e","s","s">>
s_admin == <<"a","d","m","i","n">>
s_level == <<"l","e","v","e","l">>
s_place_id == <<"p","l","a","c","e","_","i","d">>
s_osm_key == <<"o","s","m","_","k","e","y">>
s_osm_value == <<"o","s","m","_","v","a","l","u","e">>
s_category == <<"c","a","t","e","g","o","r","y">>
s_features == <<"f","e","a","t","u","r","e","s">>
s_properties == <<"p","r","o","p","e","r","t","i","e","s">>
s_geocoding == <<"g","e","o","c","o","d","i","n","g">>
s_Feature == <<"F","e","a","t","u","r","e">>
s_FeatureCollection == <<"F","e","a","t","u","r","e","C","o","l","l","e","c","t","i","o","n">>
s_Administrative == <<"A","d","m","i","n","i","s","t","r","a","t","i","v","e">>
s_Continent == <<"C","o","n","t","i","n","e","n","t">>
s_Country == <<"C","o","u","n","t","r","y">>
s_Region == <<"R","e","g","i","o","n">>
s_State == <<"S","t","a","t","e">>
s_County == <<"C","o","u","n","t","y">>
s_Municipality == <<"M","u","n","i","c","i","p","a","l","i","t","y">>
s_City == <<"C","i","t","y">>
s_Suburb == <<"S","u","b","u","r","b">>
s_Neighbourhood == <<"N","e","i","g","h","b","o","u","r","h","o","o","d">>
s_no == <<"n","o">>
s_se == <<"s","e">>
s_de == <<"d","e">>
s_query == <<"q","u","e","r","y">>
s_licence == <<"l","i","c","e","n","c","e">>
s_ODbL == <<"O","D","b","L">>
s_0_1_0 == <<"0",".","1",".","0">>
s_version == <<"v","e","r","s","i","o","n">>
s_addressdetails == <<"a","d","d","r","e","s","s","d","e","t","a","i","l","s">>
s_extratags == <<"e","x","t","r","a","t","a","g","s">>
s_State_District == <<"S","t","a","t","e"," ","D","i","s","t","r","i","c","t">>
s_City_District == <<"C","i","t","y"," ","D","i","s","t","r","i","c","t">>
s_City_Block == <<"C","i","t","y"," ","B","l","o","c","k">>
s_class == <<"c","l","a","s","s">>
s_error == <<"{","\"","e","r","r","o","r","\"",":","\"","U","n","a","b","l","e"," ","t","o"," ","g","e","o","c","o","d","e","\"","}">>
s_Tourism == <<"T","o","u","r","i","s","m">>
s_Guest_House == <<"G","u","e","s","t"," ","H","o","u","s","e">>

(***************************************************************************)
(* Optional values and Python truthiness.                                  *)
(***************************************************************************)
None == <<>>
Some(v) == <<v>>
IsNone(o) == o = <<>>
Get(o) == o[1]

\* dict.get(key): None when the key is missing
DictGet(d, k) == IF k \in DOMAIN d THEN Some(d[k]) ELSE None

\* truthiness of an Optional[str] / Optional[Mapping]: None and empty are false
Truthy(o) == ~IsNone(o) /\ DOMAIN Get(o) # {}

\* `o or default' for an Optional[str]
OrElse(o, default) == IF Truthy(o) THEN Get(o) ELSE default

SeqUpTo(S, n) == UNION {[1..k -> S] : k \in 0..n}

(***************************************************************************)
(* str.lower() and str.replace(' ', '_')                                   *)
(***************************************************************************)
UpperToLower ==
    ("A" :> "a") @@ ("B" :> "b") @@ ("C" :> "c") @@ ("D" :> "d") @@
    ("E" :> "e") @@ ("F" :> "f") @@ ("G" :> "g") @@ ("H" :> "h") @@
    ("I" :> "i") @@ ("J" :> "j") @@ ("K" :> "k") @@ ("L" :> "l") @@
    ("M" :> "m") @@ ("N" :> "n") @@ ("O" :> "o") @@ ("P" :> "p") @@
    ("Q" :> "q") @@ ("R" :> "r") @@ ("S" :> "s") @@ ("T" :> "t") @@
    ("U" :> "u") @@ ("V" :> "v") @@ ("W" :> "w") @@ ("X" :> "x") @@
    ("Y" :> "y") @@ ("Z" :> "z")

lower(s) ==
    [i \in 1..Len(s) |-> IF s[i] \in DOMAIN UpperToLower THEN UpperToLower[s[i]] ELSE s[i]]

replace(s, old, new) ==
    [i \in 1..Len(s) |-> IF s[i] = old THEN new ELSE s[i]]

\* int(rank/2): true division, then truncation towards zero
half_rank(rank) == IF rank >= 0 THEN rank \div 2 ELSE 0 - ((0 - rank) \div 2)

(***************************************************************************)
(* classtypes.py                                                           *)
(***************************************************************************)
ADMIN_LABELS ==
    (<< <<>>, 1>> :> s_Continent) @@
    (<< <<>>, 2>> :> s_Country) @@
    (<< <<>>, 3>> :> s_Region) @@
    (<< <<>>, 4>> :> s_State) @@
    (<< <<>>, 5>> :> s_State_District) @@
    (<< <<>>, 6>> :> s_County) @@
    (<< <<>>, 7>> :> s_Municipality) @@
    (<< <<>>, 8>> :> s_City) @@
    (<< <<>>, 9>> :> s_City_District) @@
    (<< <<>>, 10>> :> s_Suburb) @@
    (<< <<>>, 11>> :> s_Neighbourhood) @@
    (<< <<>>, 12>> :> s_City_Block) @@
    (<<s_no, 3>> :> s_State) @@
    (<<s_no, 4>> :> s_County) @@
    (<<s_se, 3>> :> s_State) @@
    (<<s_se, 4>> :> s_County)

\* A copy of get_label_tag that tests `rank < 26' before the postal_code rule.
get_label_tag_reordered(category, extratags, rank, country) ==
    LET label ==
          IF rank < 26 /\ Truthy(extratags) /\ s_place \in DOMAIN Get(extratags)
            THEN Get(extratags)[s_place]
          ELSE IF category = <<s_boundary, s_administrative>>
            THEN OrElse(DictGet(ADMIN_LABELS, <<OrElse(country, <<>>), half_rank(rank)>>),
                 OrElse(DictGet(ADMIN_LABELS, << <<>>, half_rank(rank)>>),
                        s_Administrative))
          ELSE IF rank < 26
            THEN (IF category[2] # s_yes THEN category[2] ELSE category[1])
          ELSE IF category[2] = s_postal_code
            THEN s_postcode
          ELSE IF rank < 28
            THEN s_road
          ELSE IF category[1] = s_place
                  /\ category[2] \in {s_house_number, s_house_name, s_country_code}
            THEN category[2]
          ELSE category[1]
    IN  replace(lower(label), " ", "_")

\* A copy of get_label_tag whose last rule yields the secondary tag.
get_label_tag_secondary(category, extratags, rank, country) ==
    LET label ==
          IF rank < 26 /\ Truthy(extratags) /\ s_place \in DOMAIN Get(extratags)
            THEN Get(extratags)[s_place]
          ELSE IF category = <<s_boundary, s_administrative>>
            THEN OrElse(DictGet(ADMIN_LABELS, <<OrElse(country, <<>>), half_rank(rank)>>),
                 OrElse(DictGet(ADMIN_LABELS, << <<>>, half_rank(rank)>>),
                        s_Administrative))
          ELSE IF category[2] = s_postal_code
            THEN s_postcode
          ELSE IF rank < 26
            THEN (IF category[2] # s_yes THEN category[2] ELSE category[1])
          ELSE IF rank < 28
            THEN s_road
          ELSE category[2]
    IN  replace(lower(label), " ", "_")

get_label_tag(category, extratags, rank, country) ==
    LET label ==
          IF rank < 26 /\ Truthy(extratags) /\ s_place \in DOMAIN Get(extratags)
            THEN Get(extratags)[s_place]
          ELSE IF category = <<s_boundary, s_administrative>>
            THEN OrElse(DictGet(ADMIN_LABELS, <<OrElse(country, <<>>), half_rank(rank)>>),
                 OrElse(DictGet(ADMIN_LABELS, << <<>>, half_rank(rank)>>),
                        s_Administrative))
          ELSE IF category[2] = s_postal_code
            THEN s_postcode
          ELSE IF rank < 26
            THEN (IF category[2] # s_yes THEN category[2] ELSE category[1])
          ELSE IF rank < 28
            THEN s_road
          ELSE IF category[1] = s_place
                  /\ category[2] \in {s_house_number, s_house_name, s_country_code}
            THEN category[2]
          ELSE category[1]
    IN  replace(lower(label), " ", "_")

(***************************************************************************)
(* The calls format_json.py makes on its JsonWriter.  The writer streams:  *)
(* every call appends to the output, nothing already written is revised.   *)
(***************************************************************************)
Ev(op, k, v) == [op |-> op, key |-> k, val |-> v]

start_object == <<Ev("start_object", <<>>, <<>>)>>
end_object == <<Ev("end_object", <<>>, <<>>)>>
start_array == <<Ev("start_array", <<>>, <<>>)>>
end_array == <<Ev("end_array", <<>>, <<>>)>>
next == <<Ev("next", <<>>, <<>>)>>
key(k) == <<Ev("key", k, <<>>)>>
raw(v) == <<Ev("raw", <<>>, v)>>
keyval(k, v) == <<Ev("keyval", k, v)>>
keyval_not_none(k, o) == IF IsNone(o) THEN <<>> ELSE keyval(k, Get(o))

\* Point.to_geojson() of the result's centroid
to_geojson(centroid) == <<"P","o","i","n","t",":">> \o centroid

\* str(n) of a non-negative integer, as an f-string formats it
RECURSIVE str(_)
str(n) ==
    LET digit == <<"0","1","2","3","4","5","6","7","8","9">>
    IN  IF n < 10 THEN <<digit[n + 1]>> ELSE str(n \div 10) \o <<digit[(n % 10) + 1]>>

(***************************************************************************)
(* An insertion-ordered dict as a sequence of <<key, value>> pairs.        *)
(***************************************************************************)
DictHas(d, k) == \E j \in 1..Len(d) : d[j][1] = k

DictSet(d, k, v) ==
    IF DictHas(d, k)
      THEN [j \in 1..Len(d) |-> IF d[j][1] = k THEN <<k, v>> ELSE d[j]]
      ELSE Append(d, <<k, v>>)

\* for k, v in d.items(): out.keyval(k, v)
write_items(d) == [j \in 1..Len(d) |-> Ev("keyval", d[j][1], d[j][2])]

\* `address or []'
rows_of(address) == IF IsNone(address) THEN <<>> ELSE Get(address)

(***************************************************************************)
(* format_json.py: _write_typed_address                                    *)
(***************************************************************************)
\* A loop body that lets a later row replace the entry of an earlier one.
typed_address_line_overwrite(parts, line, country_code) ==
    IF line.isaddress /\ Truthy(line.local_name)
      THEN DictSet(parts,
                   get_label_tag(line.category, line.extratags,
                                 line.rank_address, country_code),
                   Get(line.local_name))
      ELSE parts

\* lines 27-31: the body of the loop over the address rows
typed_address_line(parts, line, country_code) ==
    IF line.isaddress /\ Truthy(line.local_name)
      THEN LET label == get_label_tag(line.category, line.extratags,
                                      line.rank_address, country_code)
           IN  IF ~DictHas(parts, label)
                 THEN DictSet(parts, label, Get(line.local_name))
                 ELSE parts
      ELSE parts

RECURSIVE typed_address_parts(_, _, _)
typed_address_parts(lines, country_code, parts) ==
    IF lines = <<>> THEN parts
    ELSE typed_address_parts(Tail(lines), country_code,
                             typed_address_line(parts, Head(lines), country_code))

_write_typed_address(address, country_code) ==
    write_items(typed_address_parts(rows_of(address), country_code, <<>>))
    \o (IF Truthy(country_code) THEN keyval(s_country_code, Get(country_code)) ELSE <<>>)

(***************************************************************************)
(* format_json.py: GEOCODEJSON_RANKS and _write_geocodejson_address        *)
(***************************************************************************)
\* The table with the entry for rank 27 left out.
GEOCODEJSON_RANKS_without_27 ==
    [r \in (3..26) \cup {28} |->
        IF r = 3 THEN s_locality
        ELSE IF r = 4 THEN s_country
        ELSE IF r <= 9 THEN s_state
        ELSE IF r <= 12 THEN s_county
        ELSE IF r <= 16 THEN s_city
        ELSE IF r <= 21 THEN s_district
        ELSE IF r <= 24 THEN s_locality
        ELSE IF r <= 27 THEN s_street
        ELSE s_house]

GEOCODEJSON_RANKS ==
    (3 :> s_locality) @@
    (4 :> s_country) @@
    (5 :> s_state) @@ (6 :> s_state) @@ (7 :> s_state) @@ (8 :> s_state) @@ (9 :> s_state) @@
    (10 :> s_county) @@ (11 :> s_county) @@ (12 :> s_county) @@
    (13 :> s_city) @@ (14 :> s_city) @@ (15 :> s_city) @@ (16 :> s_city) @@
    (17 :> s_district) @@ (18 :> s_district) @@ (19 :> s_district) @@ (20 :> s_district) @@
    (21 :> s_district) @@
    (22 :> s_locality) @@ (23 :> s_locality) @@ (24 :> s_locality) @@
    (25 :> s_street) @@ (26 :> s_street) @@ (27 :> s_street) @@ (28 :> s_house)

\* GEOCODEJSON_RANKS[k]: a missing key raises KeyError
KeyError == <<"K","e","y","E","r","r","o","r">>
AttributeError == <<"A","t","t","r","i","b","u","t","e","E","r","r","o","r">>

Max(a, b) == IF a >= b THEN a ELSE b
Min(a, b) == IF a <= b THEN a ELSE b

\* lines 51-52: the row is not the result's own entry and its rank is in range
is_bucket_row(line, obj_place_id) ==
    /\ (IsNone(obj_place_id) \/ obj_place_id # line.place_id)
    /\ line.rank_address >= 4
    /\ line.rank_address < 28

\* lines 46-53: the body of the loop; st = [out, extra, raised]
geocodejson_address_line(st, line, obj_place_id) ==
    IF line.isaddress /\ Truthy(line.local_name)
      THEN IF line.category[2] \in {s_postcode, s_postal_code}
             THEN [st EXCEPT !.out = @ \o keyval(s_postcode, Get(line.local_name))]
           ELSE IF line.category[2] = s_house_number
             THEN [st EXCEPT !.out = @ \o keyval(s_housenumber, Get(line.local_name))]
           ELSE IF is_bucket_row(line, obj_place_id)
             THEN IF line.rank_address \in DOMAIN GEOCODEJSON_RANKS
                    THEN [st EXCEPT !.extra = DictSet(@, GEOCODEJSON_RANKS[line.rank_address],
                                                      Get(line.local_name))]
                    ELSE [st EXCEPT !.raised = Some(KeyError)]
           ELSE st
      ELSE st

RECURSIVE geocodejson_address_loop(_, _, _)
geocodejson_address_loop(lines, obj_place_id, st) ==
    IF lines = <<>> \/ ~IsNone(st.raised) THEN st
    ELSE geocodejson_address_loop(Tail(lines), obj_place_id,
                                  geocodejson_address_line(st, Head(lines), obj_place_id))

\* the calls made on the writer, and the exception raised, if any
_write_geocodejson_address(address, obj_place_id, country_code) ==
    LET st == geocodejson_address_loop(rows_of(address), obj_place_id,
                                       [out |-> <<>>, extra |-> <<>>, raised |-> None])
    IN  IF ~IsNone(st.raised) THEN [out |-> st.out, raised |-> st.raised]
        ELSE [out |-> st.out \o write_items(st.extra)
                      \o (IF Truthy(country_code)
                            THEN keyval(s_country_code, Get(country_code)) ELSE <<>>),
              raised |-> None]

(***************************************************************************)
(* format_json.py: what the emitters write for one result.  Fields whose   *)
(* values come from collaborators outside the two files (licence, OSM      *)
(* object, coordinates, ranks, importance, localized names, icon, bounding *)
(* box, accuracy) are not written in the model.                            *)
(***************************************************************************)
\* options.get(name, False)
option(options, name) == IF name \in DOMAIN options THEN options[name] ELSE FALSE

\* A copy of json_geometry that derives the svg key like the text and kml keys.
json_geometry_geosvg(geometry) ==
    IF Truthy(geometry)
      THEN keyval_not_none(s_geo \o s_text, DictGet(Get(geometry), s_text))
           \o keyval_not_none(s_geo \o s_kml, DictGet(Get(geometry), s_kml))
           \o (IF s_geojson \in DOMAIN Get(geometry)
                 THEN key(s_geojson) \o raw(Get(geometry)[s_geojson]) \o next
                 ELSE <<>>)
           \o keyval_not_none(s_geo \o s_svg, DictGet(Get(geometry), s_svg))
      ELSE <<>>

\* lines 123-128
json_geometry(geometry) ==
    IF Truthy(geometry)
      THEN keyval_not_none(s_geo \o s_text, DictGet(Get(geometry), s_text))
           \o keyval_not_none(s_geo \o s_kml, DictGet(Get(geometry), s_kml))
           \o (IF s_geojson \in DOMAIN Get(geometry)
                 THEN key(s_geojson) \o raw(Get(geometry)[s_geojson]) \o next
                 ELSE <<>>)
           \o keyval_not_none(s_svg, DictGet(Get(geometry), s_svg))
      ELSE <<>>

\* lines 104-107 and 183-186
typed_address_block(result, options) ==
    IF option(options, s_addressdetails)
      THEN key(s_address) \o start_object
           \o _write_typed_address(result.address_rows, result.country_code)
           \o end_object \o next
      ELSE <<>>

\* lines 109-110 and 188-189
extratags_field(result, options) ==
    IF option(options, s_extratags) THEN keyval(s_extratags, result.extratags) ELSE <<>>

\* lines 80-130: one result of format_base_json
json_result(result, options, class_label) ==
    start_object
    \o keyval_not_none(s_place_id, result.place_id)
    \o keyval(class_label, result.category[1])
    \o keyval(s_type, result.category[2])
    \o keyval(s_addresstype, get_label_tag(result.category, result.extratags,
                                           result.rank_address, result.country_code))
    \o typed_address_block(result, options)
    \o extratags_field(result, options)
    \o json_geometry(result.geometry)
    \o end_object

\* lines 199-200 and 265-266: result.geometry.get('geojson') needs a mapping
feature_geometry(result) ==
    IF IsNone(result.geometry)
      THEN [out |-> key(s_geometry), raised |-> Some(AttributeError)]
      ELSE [out |-> key(s_geometry)
                    \o raw(OrElse(DictGet(Get(result.geometry), s_geojson),
                                  to_geojson(result.centroid)))
                    \o next,
            raised |-> None]

\* lines 165-202: one result of format_base_geojson
geojson_result(result, options) ==
    LET geometry == feature_geometry(result)
    IN  [out |-> start_object
                 \o keyval(s_type, s_Feature)
                 \o key(s_properties) \o start_object
                 \o keyval_not_none(s_place_id, result.place_id)
                 \o keyval(s_category, result.category[1])
                 \o keyval(s_type, result.category[2])
                 \o keyval(s_addresstype,
                           get_label_tag(result.category, result.extratags,
                                         result.rank_address, result.country_code))
                 \o typed_address_block(result, options)
                 \o extratags_field(result, options)
                 \o end_object \o next
                 \o geometry.out
                 \o (IF IsNone(geometry.raised) THEN end_object \o next ELSE <<>>),
         raised |-> geometry.raised]

\* line 247: GEOCODEJSON_RANKS[max(3, min(28, result.rank_address))]
geocodejson_type(rank_address) ==
    DictGet(GEOCODEJSON_RANKS, Max(3, Min(28, rank_address)))

\* lines 256-261: the admin object
RECURSIVE admin_levels(_)
admin_levels(lines) ==
    IF lines = <<>> THEN <<>>
    ELSE LET line == Head(lines)
         IN  (IF /\ line.isaddress
                 /\ (IF IsNone(line.admin_level) \/ Get(line.admin_level) = 0
                       THEN 15 ELSE Get(line.admin_level)) < 15
                 /\ Truthy(line.local_name)
                THEN keyval(s_level \o str(Get(line.admin_level)), Get(line.local_name))
                ELSE <<>>)
             \o admin_levels(Tail(lines))

\* lines 252-261
geocodejson_address_block(result, options) ==
    IF option(options, s_addressdetails)
      THEN LET address == _write_geocodejson_address(result.address_rows, result.place_id,
                                                     result.country_code)
           IN  IF ~IsNone(address.raised) THEN address
               ELSE [out |-> address.out
                             \o key(s_admin) \o start_object
                             \o admin_levels(rows_of(result.address_rows))
                             \o end_object \o next,
                     raised |-> None]
      ELSE [out |-> <<>>, raised |-> None]

\* lines 236-268: one result of format_base_geocodejson
geocodejson_result(result, options) ==
    LET type == geocodejson_type(result.rank_address)
        address == geocodejson_address_block(result, options)
        geometry == feature_geometry(result)
        head == start_object
                \o keyval(s_type, s_Feature)
                \o key(s_properties) \o start_object
                \o key(s_geocoding) \o start_object
                \o keyval_not_none(s_place_id, result.place_id)
                \o keyval(s_osm_key, result.category[1])
                \o keyval(s_osm_value, result.category[2])
    IN  IF IsNone(type) THEN [out |-> head, raised |-> Some(KeyError)]
        ELSE IF ~IsNone(address.raised)
          THEN [out |-> head \o keyval(s_type, Get(type)) \o address.out,
                raised |-> address.raised]
        ELSE [out |-> head \o keyval(s_type, Get(type)) \o address.out
                      \o end_object \o next \o end_object \o next
                      \o geometry.out
                      \o (IF IsNone(geometry.raised) THEN end_object \o next ELSE <<>>),
              raised |-> geometry.raised]

(***************************************************************************)
(* The return value of a call: nothing yet, a str given literally, the     *)
(* text of the writer (out()), or an exception that leaves the function.   *)
(***************************************************************************)
Pending == [kind |-> "pending", val |-> <<>>]
Value(s) == [kind |-> "value", val |-> s]
Written == [kind |-> "out", val |-> <<>>]
Raised(e) == [kind |-> "raise", val |-> e]

(***************************************************************************)
(* Inputs.  A result and an address row carry the fields the two files     *)
(* read.                                                                   *)
(***************************************************************************)
AddressLine(category, extratags, rank_address, local_name, isaddress, place_id, admin_level) ==
    [category |-> category, extratags |-> extratags, rank_address |-> rank_address,
     local_name |-> local_name, isaddress |-> isaddress, place_id |-> place_id,
     admin_level |-> admin_level]

Ranks == 0..MaxRank

\* rows that exercise the labels, the de-duplication and the direct entries
DetailRows ==
    { AddressLine(<<s_place, s_city>>, None, 16, Some(<<"a">>), TRUE, Some(2), None),
      AddressLine(<<s_boundary, s_administrative>>, None, 16, Some(<<"b">>), TRUE,
                  Some(3), Some(8)),
      AddressLine(<<s_place, s_postcode>>, None, 5, Some(<<"p">>), TRUE, None, None),
      AddressLine(<<s_boundary, s_postal_code>>, None, 11, Some(<<"q">>), TRUE,
                  Some(4), None),
      AddressLine(<<s_place, s_house_number>>, None, 28, Some(<<"h">>), TRUE, None, None),
      AddressLine(<<s_place, s_country_code>>, None, 28, Some(<<"d">>), TRUE, None, None),
      AddressLine(<<s_place, s_city>>, None, 16, Some(<<"z">>), FALSE, Some(5), None),
      AddressLine(<<s_place, s_city>>, None, 16, None, TRUE, Some(6), None),
      AddressLine(<<s_place, s_city>>, None, 16, Some(<<>>), TRUE, Some(7), None),
      AddressLine(<<s_highway, s_residential>>, None, 26, Some(<<"s">>), TRUE,
                  Some(1), None) }

\* one row for every address rank, as the result's own entry and as another place
RankRows ==
    { AddressLine(<<s_highway, s_residential>>, None, r, Some(<<"n">>), TRUE, Some(p), None) :
        r \in Ranks, p \in {1, 2} }

Fragments == {s_text, s_kml, s_geojson, s_svg}

\* None, the empty mapping, and every choice of precomputed fragments
GeometryDomain ==
    {None} \cup {Some([k \in K |-> <<"#">> \o k]) : K \in SUBSET Fragments}

BaseResult ==
    [place_id |-> Some(1), category |-> <<s_amenity, s_restaurant>>, extratags |-> None,
     rank_address |-> 30, country_code |-> None, address_rows |-> None,
     geometry |-> Some(<<>>), centroid |-> <<"c">>]

GeometryResults == {[BaseResult EXCEPT !.geometry = g] : g \in GeometryDomain}

RankResults == {[BaseResult EXCEPT !.rank_address = r] : r \in (0 - 1)..(MaxRank + 1)}

\* the geometries that decide a branch: none, empty, with and without geojson
CoreGeometryResults ==
    {[BaseResult EXCEPT !.geometry = g] :
        g \in {None, Some(<<>>), Some(s_geojson :> <<"#">> \o s_geojson),
               Some((s_text :> <<"#">> \o s_text) @@ (s_svg :> <<"#">> \o s_svg))}}

AddressResults ==
    {[BaseResult EXCEPT !.place_id = p, !.country_code = c, !.address_rows = Some(rows)] :
        p \in {None, Some(1)}, c \in {None, Some(s_de)},
        rows \in SeqUpTo(DetailRows, MaxRows) \cup {<<line>> : line \in RankRows}}

Emitters == {"format_base_json", "format_base_geojson", "format_base_geocodejson"}

AllOptions ==
    (s_addressdetails :> TRUE) @@ (s_extratags :> TRUE) @@ (s_query :> Some(<<"q">>))

Options == {<<>>, AllOptions}

EmitterCall(func, results, options, simple) ==
    [func |-> func, results |-> results, options |-> options, simple |-> simple,
     class_label |-> s_class]

\* every result sequence over the core geometries, and every geometry on its own
FormatInputs ==
    SeqUpTo(CoreGeometryResults, MaxResults) \cup {<<r>> : r \in GeometryResults}

\* one result with address rows, or with an address rank of its own
AddressInputs == {<<r>> : r \in AddressResults \cup RankResults}

Init ==
    /\ \/ \E f \in Emitters, rs \in FormatInputs, o \in Options, s \in BOOLEAN :
              call = EmitterCall(f, rs, o, s)
       \/ \E f \in Emitters, rs \in AddressInputs, s \in BOOLEAN :
              call = EmitterCall(f, rs, AllOptions, s)
    /\ pc = "start"
    /\ idx = 0
    /\ out = <<>>
    /\ ret = Pending

(***************************************************************************)
(* format_base_json                                                        *)
(***************************************************************************)
\* lines 67-75
StartJson ==
    /\ pc = "start"
    /\ call.func = "format_base_json"
    /\ IF call.simple
         THEN IF call.results = <<>>
                THEN pc' = "done" /\ ret' = Value(s_error) /\ out' = out
                ELSE pc' = "loop" /\ ret' = ret /\ out' = out
         ELSE pc' = "loop" /\ ret' = ret /\ out' = out \o start_array
    /\ UNCHANGED <<call, idx>>

\* A loop body that goes on to the next result in simple mode too.
JsonResult_without_return ==
    /\ pc = "loop"
    /\ call.func = "format_base_json"
    /\ idx < Len(call.results)
    /\ out' = out \o json_result(call.results[idx + 1], call.options, call.class_label)
                  \o next
    /\ idx' = idx + 1
    /\ UNCHANGED <<call, pc, ret>>

\* lines 77-135: one iteration of the loop over the results
JsonResult ==
    /\ pc = "loop"
    /\ call.func = "format_base_json"
    /\ idx < Len(call.results)
    /\ IF call.simple
         THEN /\ out' = out \o json_result(call.results[idx + 1], call.options,
                                           call.class_label)
              /\ pc' = "done"
              /\ ret' = Written
              /\ idx' = idx
         ELSE /\ out' = out \o json_result(call.results[idx + 1], call.options,
                                           call.class_label)
                            \o next
              /\ idx' = idx + 1
              /\ UNCHANGED <<pc, ret>>
    /\ UNCHANGED call

\* lines 137-139
JsonFinish ==
    /\ pc = "loop"
    /\ call.func = "format_base_json"
    /\ idx = Len(call.results)
    /\ out' = out \o end_array
    /\ pc' = "done"
    /\ ret' = Written
    /\ UNCHANGED <<call, idx>>

(***************************************************************************)
(* format_base_geojson                                                     *)
(***************************************************************************)
\* A start that opens the FeatureCollection without the simple-mode shortcut.
StartGeojson_without_shortcut ==
    /\ pc = "start"
    /\ call.func = "format_base_geojson"
    /\ pc' = "loop" /\ ret' = ret
    /\ out' = out \o start_object \o keyval(s_type, s_FeatureCollection)
                  \o key(s_features) \o start_array
    /\ UNCHANGED <<call, idx>>

\* lines 147-157
StartGeojson ==
    /\ pc = "start"
    /\ call.func = "format_base_geojson"
    /\ IF call.results = <<>> /\ call.simple
         THEN pc' = "done" /\ ret' = Value(s_error) /\ out' = out
         ELSE /\ pc' = "loop" /\ ret' = ret
              /\ out' = out \o start_object \o keyval(s_type, s_FeatureCollection)
                            \o key(s_features) \o start_array
    /\ UNCHANGED <<call, idx>>

\* lines 159-202: one iteration; an exception ends the call and drops the writer
GeojsonResult ==
    /\ pc = "loop"
    /\ call.func = "format_base_geojson"
    /\ idx < Len(call.results)
    /\ LET r == geojson_result(call.results[idx + 1], call.options)
       IN  IF IsNone(r.raised)
             THEN out' = out \o r.out /\ idx' = idx + 1 /\ UNCHANGED <<pc, ret>>
             ELSE out' = <<>> /\ pc' = "done" /\ ret' = Raised(Get(r.raised)) /\ idx' = idx
    /\ UNCHANGED call

\* lines 204-206
GeojsonFinish ==
    /\ pc = "loop"
    /\ call.func = "format_base_geojson"
    /\ idx = Len(call.results)
    /\ out' = out \o end_array \o next \o end_object
    /\ pc' = "done"
    /\ ret' = Written
    /\ UNCHANGED <<call, idx>>

(***************************************************************************)
(* format_base_geocodejson                                                 *)
(***************************************************************************)
\* lines 213-228
StartGeocodejson ==
    /\ pc = "start"
    /\ call.func = "format_base_geocodejson"
    /\ IF call.results = <<>> /\ call.simple
         THEN pc' = "done" /\ ret' = Value(s_error) /\ out' = out
         ELSE /\ pc' = "loop" /\ ret' = ret
              /\ out' = out \o start_object \o keyval(s_type, s_FeatureCollection)
                            \o key(s_geocoding) \o start_object
                            \o keyval(s_version, s_0_1_0)
                            \o keyval(s_licence, s_ODbL)
                            \o keyval_not_none(s_query, IF s_query \in DOMAIN call.options
                                                          THEN call.options[s_query]
                                                          ELSE None)
                            \o end_object \o next
                            \o key(s_features) \o start_array
    /\ UNCHANGED <<call, idx>>

\* lines 230-268: one iteration; an exception ends the call and drops the writer
GeocodejsonResult ==
    /\ pc = "loop"
    /\ call.func = "format_base_geocodejson"
    /\ idx < Len(call.results)
    /\ LET r == geocodejson_result(call.results[idx + 1], call.options)
       IN  IF IsNone(r.raised)
             THEN out' = out \o r.out /\ idx' = idx + 1 /\ UNCHANGED <<pc, ret>>
             ELSE out' = <<>> /\ pc' = "done" /\ ret' = Raised(Get(r.raised)) /\ idx' = idx
    /\ UNCHANGED call

\* lines 270-272
GeocodejsonFinish ==
    /\ pc = "loop"
    /\ call.func = "format_base_geocodejson"
    /\ idx = Len(call.results)
    /\ out' = out \o end_array \o next \o end_object
    /\ pc' = "done"
    /\ ret' = Written
    /\ UNCHANGED <<call, idx>>

Next ==
    \/ StartJson
    \/ JsonResult
    \/ JsonFinish
    \/ StartGeojson
    \/ GeojsonResult
    \/ GeojsonFinish
    \/ StartGeocodejson
    \/ GeocodejsonResult
    \/ GeocodejsonFinish

Spec == Init /\ [][Next]_vars

(***************************************************************************)
(* get_label_tag on its own: every category, extratags, rank and country   *)
(* of the sets below.                                                      *)
(***************************************************************************)
Categories ==
    { <<s_boundary, s_administrative>>, <<s_amenity, s_restaurant>>,
      <<s_place, s_postal_code>>, <<s_boundary, s_postal_code>>,
      <<s_highway, s_yes>>, <<s_highway, s_residential>>,
      <<s_place, s_house_number>>, <<s_place, s_house_name>>,
      <<s_place, s_country_code>>, <<s_place, s_city>>,
      <<s_Tourism, s_Guest_House>> }

ExtratagsDomain ==
    { None, Some(<<>>), Some(s_query :> <<"q">>), Some(s_place :> <<"X">>),
      Some((s_place :> s_City_Block) @@ (s_query :> <<"q">>)) }

Countries == {None, Some(<<>>), Some(s_no), Some(s_se), Some(s_de)}

LabelInit ==
    /\ call \in {[func |-> "get_label_tag", category |-> c, extratags |-> e,
                  rank |-> r, country |-> k] :
                   c \in Categories, e \in ExtratagsDomain, r \in Ranks, k \in Countries}
    /\ pc = "start"
    /\ idx = 0
    /\ out = <<>>
    /\ ret = Pending

\* classtypes.py lines 15-37
GetLabelTag ==
    /\ pc = "start"
    /\ call.func = "get_label_tag"
    /\ ret' = Value(get_label_tag(call.category, call.extratags, call.rank, call.country))
    /\ pc' = "done"
    /\ UNCHANGED <<call, idx, out>>

LabelNext == GetLabelTag

SpecLabel == LabelInit /\ [][LabelNext]_vars

(***************************************************************************)
(* Reading the written output: nesting depth, the results written, the     *)
(* members of an object.                                                   *)
(***************************************************************************)
DepthBefore(w, i) ==
    Cardinality({j \in 1..(i - 1) : w[j].op \in {"start_object", "start_array"}})
    - Cardinality({j \in 1..(i - 1) : w[j].op \in {"end_object", "end_array"}})

\* the objects opened at depth d, by position
ObjectsAt(w, d) ==
    {i \in 1..Len(w) : w[i].op = "start_object" /\ DepthBefore(w, i) = d}

Nth(S, n) == CHOOSE s \in S : Cardinality({t \in S : t < s}) = n - 1

\* where the object opened at position s ends
EndOf(w, s) ==
    LET E == {j \in (s + 1)..Len(w) :
                 w[j].op = "end_object" /\ DepthBefore(w, j) = DepthBefore(w, s) + 1}
    IN  CHOOSE j \in E : \A k \in E : j <= k

\* positions of the keys written directly in the object opened at position s
MemberIdx(w, s) ==
    {j \in (s + 1)..(EndOf(w, s) - 1) :
        w[j].op \in {"key", "keyval"} /\ DepthBefore(w, j) = DepthBefore(w, s) + 1}

RECURSIVE Pick(_, _, _)
Pick(w, I, i) ==
    IF i > Len(w) THEN <<>>
    ELSE (IF i \in I THEN <<w[i]>> ELSE <<>>) \o Pick(w, I, i + 1)

\* the keys written directly in the object opened at position s, in order
Members(w, s) == Pick(w, MemberIdx(w, s), 1)

HasObject(w, s, k) == \E j \in MemberIdx(w, s) : w[j].op = "key" /\ w[j].key = k

\* the object written under key k in the object opened at position s
ObjectUnder(w, s, k) ==
    (CHOOSE j \in MemberIdx(w, s) : w[j].op = "key" /\ w[j].key = k) + 1

\* the depth at which an emitter writes its results
ResultDepth ==
    IF call.func = "format_base_json" THEN (IF call.simple THEN 0 ELSE 1) ELSE 2

ResultsWritten == Cardinality(ObjectsAt(out, ResultDepth))

ResultObject(i) == Nth(ObjectsAt(out, ResultDepth), i)

Returned == pc = "done" /\ ret = Written

(***************************************************************************)
(* C1.  With simple = true and no results, each of the three emitters      *)
(* returns exactly {"error":"Unable to geocode"}, whatever the options,    *)
(* and nothing of the array or FeatureCollection has been written.         *)
(***************************************************************************)
C1_EmptySimpleReturnsError ==
    (pc = "done" /\ call.simple /\ call.results = <<>>)
        => /\ ret.kind = "value"
           /\ ret.val = <<"{","\"","e","r","r","o","r","\"",":","\"","U","n","a","b","l","e",
                          " ","t","o"," ","g","e","o","c","o","d","e","\"","}">>
           /\ out = <<>>

C1_Witness ==
    /\ pc = "done" /\ call.simple /\ call.results = <<>>
    /\ call.func = "format_base_geojson"
    /\ call.options = AllOptions

(***************************************************************************)
(* C4.  As claimed: in simple mode with results, each emitter returns a    *)
(* text with exactly one result, and plain JSON without an array.          *)
(***************************************************************************)
C4_Original ==
    (Returned /\ call.simple /\ call.results # <<>>)
        => /\ ResultsWritten = 1
           /\ call.func = "format_base_json" => out[1].op = "start_object"

(***************************************************************************)
(* C4, amended.  In simple mode with results, plain JSON returns the       *)
(* object of the first result alone, not in an array; GeoJSON and          *)
(* GeoCodeJSON, when they return a text, return a closed FeatureCollection *)
(* with one feature for every result supplied.                             *)
(***************************************************************************)
C4_SimpleModeResults ==
    (Returned /\ call.simple /\ call.results # <<>>)
        => IF call.func = "format_base_json"
             THEN /\ ResultsWritten = 1
                  /\ out[1].op = "start_object"
                  /\ EndOf(out, 1) = Len(out)
                  /\ \A j \in 1..Len(out) : out[j].op # "start_array"
                  /\ out = json_result(call.results[1], call.options, call.class_label)
             ELSE /\ ResultsWritten = Len(call.results)
                  /\ out[1].op = "start_object"
                  /\ out[2] = Ev("keyval", s_type, s_FeatureCollection)
                  /\ EndOf(out, 1) = Len(out)

C4_Witness ==
    /\ Returned /\ call.simple /\ Len(call.results) = 2
    /\ call.func = "format_base_json"

(***************************************************************************)
(* C5.  The geometry keys of a result of the plain-JSON emitter.           *)
(***************************************************************************)
k_geotext == <<"g","e","o","t","e","x","t">>
k_geokml == <<"g","e","o","k","m","l">>
k_geojson == <<"g","e","o","j","s","o","n">>
k_geosvg == <<"g","e","o","s","v","g">>
k_svg == <<"s","v","g">>

\* the keys of a plain-JSON result that are not geometry keys
OtherJsonKeys ==
    {s_place_id, call.class_label, s_type, s_addresstype, s_address, s_extratags}

\* the geometry keys written for result i, in order
GeometryMembers(i) ==
    LET s == ResultObject(i)
    IN  Pick(out, {j \in MemberIdx(out, s) : out[j].key \notin OtherJsonKeys}, 1)

HasFragment(result, f) == ~IsNone(result.geometry) /\ f \in DOMAIN Get(result.geometry)

\* key k is written once, with fragment f as its value, exactly when f is present
KeyForFragment(i, k, f, embedded) ==
    LET result == call.results[i]
        s == ResultObject(i)
        at == {j \in MemberIdx(out, s) : out[j].key = k}
    IN  IF HasFragment(result, f)
          THEN /\ Cardinality(at) = 1
               /\ \A j \in at :
                    IF embedded
                      THEN out[j].op = "key" /\ out[j + 1] = Ev("raw", <<>>, Get(result.geometry)[f])
                      ELSE out[j] = Ev("keyval", k, Get(result.geometry)[f])
          ELSE at = {}

\* C5, as claimed: a geometry key is written exactly when its fragment is present,
\* 'geotext', 'geokml', 'geojson' (raw-embedded), and 'geosvg' for the svg fragment;
\* no other geometry key is written.
C5_Original ==
    (call.func = "format_base_json" /\ pc \in {"loop", "done"})
        => \A i \in 1..ResultsWritten :
             /\ KeyForFragment(i, k_geotext, s_text, FALSE)
             /\ KeyForFragment(i, k_geokml, s_kml, FALSE)
             /\ KeyForFragment(i, k_geojson, s_geojson, TRUE)
             /\ KeyForFragment(i, k_geosvg, s_svg, FALSE)
             /\ \A m \in 1..Len(GeometryMembers(i)) :
                  GeometryMembers(i)[m].key \in {k_geotext, k_geokml, k_geojson, k_geosvg}

(***************************************************************************)
(* C5, amended.  For every result the plain-JSON emitter writes a geometry *)
(* key exactly when the fragment is present: 'geotext' for 'text',         *)
(* 'geokml' for 'kml', 'geojson' (raw-embedded) for 'geojson' and 'svg'    *)
(* for 'svg'; no other geometry key is written.                            *)
(***************************************************************************)
C5_GeometryKeys ==
    (call.func = "format_base_json" /\ pc \in {"loop", "done"})
        => \A i \in 1..ResultsWritten :
             /\ KeyForFragment(i, k_geotext, s_text, FALSE)
             /\ KeyForFragment(i, k_geokml, s_kml, FALSE)
             /\ KeyForFragment(i, k_geojson, s_geojson, TRUE)
             /\ KeyForFragment(i, k_svg, s_svg, FALSE)
             /\ \A m \in 1..Len(GeometryMembers(i)) :
                  GeometryMembers(i)[m].key \in {k_geotext, k_geokml, k_geojson, k_svg}

C5_Witness ==
    /\ call.func = "format_base_json" /\ Returned
    /\ ResultsWritten = 1
    /\ ~IsNone(call.results[1].geometry)
    /\ DOMAIN Get(call.results[1].geometry) = Fragments
    /\ Len(GeometryMembers(1)) = 4

(***************************************************************************)
(* C6.  For every result, also one whose geometry mapping is None or has   *)
(* no 'geojson' fragment, the GeoJSON and GeoCodeJSON emitters do not fail *)
(* and write exactly one 'geometry' field: the 'geojson' fragment when     *)
(* present, otherwise the point of the centroid.                           *)
(***************************************************************************)
C6_OneGeometryField ==
    (call.func \in {"format_base_geojson", "format_base_geocodejson"} /\ pc = "done")
        => /\ ret.kind # "raise"
           /\ ret = Written => ResultsWritten = Len(call.results)
           /\ \A i \in 1..ResultsWritten :
                LET result == call.results[i]
                    at == {j \in MemberIdx(out, ResultObject(i)) : out[j].key = s_geometry}
                IN  /\ Cardinality(at) = 1
                    /\ \A j \in at :
                         out[j + 1] = Ev("raw", <<>>,
                                         IF HasFragment(result, s_geojson)
                                           THEN Get(result.geometry)[s_geojson]
                                           ELSE <<"P","o","i","n","t",":">> \o result.centroid)

(***************************************************************************)
(* The address object of a result of the plain-JSON and GeoJSON emitters,  *)
(* and the geocoding object of a result of the GeoCodeJSON emitter.        *)
(***************************************************************************)
AddressParent(i) ==
    IF call.func = "format_base_json" THEN ResultObject(i)
    ELSE ObjectUnder(out, ResultObject(i), s_properties)

HasAddress(i) == HasObject(out, AddressParent(i), s_address)

\* the <<key, value>> entries of the address object of result i, in order
AddressEntries(i) ==
    LET m == Members(out, ObjectUnder(out, AddressParent(i), s_address))
    IN  [n \in 1..Len(m) |-> <<m[n].key, m[n].val>>]

GeocodingObject(i) ==
    ObjectUnder(out, ObjectUnder(out, ResultObject(i), s_properties), s_geocoding)

\* the rows that are part of the address and have a non-empty local name
Named(rows) ==
    {n \in 1..Len(rows) :
        /\ rows[n].isaddress
        /\ ~IsNone(rows[n].local_name)
        /\ Get(rows[n].local_name) # <<>>}

LabelOf(rows, n, country_code) ==
    get_label_tag(rows[n].category, rows[n].extratags, rows[n].rank_address, country_code)

\* the named rows that no earlier named row shares its label with
FirstOfLabel(rows, country_code) ==
    {n \in Named(rows) :
        \A m \in Named(rows) :
            m < n => LabelOf(rows, m, country_code) # LabelOf(rows, n, country_code)}

ExpectedTypedAddress(rows, country_code) ==
    LET F == FirstOfLabel(rows, country_code)
    IN  [n \in 1..Cardinality(F) |->
            <<LabelOf(rows, Nth(F, n), country_code), Get(rows[Nth(F, n)].local_name)>>]
        \o (IF ~IsNone(country_code) /\ Get(country_code) # <<>>
              THEN << <<s_country_code, Get(country_code)>> >>
              ELSE <<>>)

(***************************************************************************)
(* C7.  The typed-address projection writes one entry per distinct label   *)
(* of the rows with isaddress and a non-empty local_name, with the         *)
(* local_name of the first such row, in order of first occurrence; other   *)
(* rows contribute nothing; country_code comes last, and only when a       *)
(* country code is available.                                              *)
(***************************************************************************)
C7_TypedAddressFirstWins ==
    (call.func \in {"format_base_json", "format_base_geojson"} /\ pc \in {"loop", "done"})
        => \A i \in 1..ResultsWritten :
             /\ HasAddress(i) = option(call.options, s_addressdetails)
             /\ HasAddress(i) =>
                  AddressEntries(i) = ExpectedTypedAddress(rows_of(call.results[i].address_rows),
                                                           call.results[i].country_code)

C7_Witness ==
    /\ call.func = "format_base_json" /\ Returned
    /\ ResultsWritten = 1
    /\ HasAddress(1)
    /\ Len(rows_of(call.results[1].address_rows)) = 2
    /\ Cardinality(Named(rows_of(call.results[1].address_rows))) = 2
    /\ AddressEntries(1) = << <<s_city, <<"a">> >>, <<s_country_code, s_de>> >>

(***************************************************************************)
(* C10.  In the address object written by the typed-address projection no  *)
(* key is written more than once, 'country_code' included.                 *)
(***************************************************************************)
C10_NoDuplicateAddressKey ==
    (call.func \in {"format_base_json", "format_base_geojson"} /\ pc \in {"loop", "done"})
        => \A i \in 1..ResultsWritten :
             HasAddress(i) =>
               \A m, n \in 1..Len(AddressEntries(i)) :
                  m # n => AddressEntries(i)[m][1] # AddressEntries(i)[n][1]

(***************************************************************************)
(* C8.  When several rows with isaddress and a local_name have the         *)
(* secondary tag 'postcode' or 'postal_code', the GeoCodeJSON address      *)
(* carries a single 'postcode' entry, with the local_name of the last.     *)
(***************************************************************************)
PostcodeRows(rows) ==
    {n \in Named(rows) : rows[n].category[2] \in {s_postcode, s_postal_code}}

C8_SinglePostcodeLastWins ==
    (call.func = "format_base_geocodejson" /\ pc \in {"loop", "done"}
       /\ option(call.options, s_addressdetails))
        => \A i \in 1..ResultsWritten :
             LET rows == rows_of(call.results[i].address_rows)
                 P == PostcodeRows(rows)
                 at == {j \in MemberIdx(out, GeocodingObject(i)) : out[j].key = s_postcode}
             IN  P # {} =>
                   /\ Cardinality(at) = 1
                   /\ \A j \in at :
                        out[j].val = Get(rows[CHOOSE n \in P : \A m \in P : m <= n].local_name)

(***************************************************************************)
(* C9.  Every lookup in the rank-to-bucket table succeeds and follows the  *)
(* table: the 'type' of a result is the bucket of its rank_address clamped *)
(* to [3, 28], and a row gets a bucket entry only when 4 <= rank_address   *)
(* < 28 and it is not the result's own entry.                              *)
(***************************************************************************)
\* the table as the specification gives it
BucketOf(r) ==
    CASE r = 3 -> <<"l","o","c","a","l","i","t","y">>
      [] r = 4 -> <<"c","o","u","n","t","r","y">>
      [] r \in 5..9 -> <<"s","t","a","t","e">>
      [] r \in 10..12 -> <<"c","o","u","n","t","y">>
      [] r \in 13..16 -> <<"c","i","t","y">>
      [] r \in 17..21 -> <<"d","i","s","t","r","i","c","t">>
      [] r \in 22..24 -> <<"l","o","c","a","l","i","t","y">>
      [] r \in 25..27 -> <<"s","t","r","e","e","t">>
      [] r = 28 -> <<"h","o","u","s","e">>

Clamped(r) == IF r < 3 THEN 3 ELSE IF r > 28 THEN 28 ELSE r

BucketNames == {BucketOf(r) : r \in 3..28}

C9_RankLookups ==
    call.func = "format_base_geocodejson"
        => /\ pc = "done" => ret # Raised(KeyError)
           /\ \A i \in 1..ResultsWritten :
                LET result == call.results[i]
                    rows == rows_of(result.address_rows)
                    G == GeocodingObject(i)
                IN  /\ \E j \in MemberIdx(out, G) :
                         out[j] = Ev("keyval", s_type, BucketOf(Clamped(result.rank_address)))
                    /\ Cardinality({j \in MemberIdx(out, G) : out[j].key = s_type}) = 1
                    /\ \A j \in MemberIdx(out, G) :
                         out[j].key \in BucketNames =>
                           \E n \in Named(rows) :
                              /\ rows[n].rank_address >= 4
                              /\ rows[n].rank_address < 28
                              /\ IsNone(result.place_id) \/ rows[n].place_id # result.place_id
                              /\ out[j].key = BucketOf(rows[n].rank_address)
                              /\ out[j].val = Get(rows[n].local_name)

C9_Witness ==
    /\ call.func = "format_base_geocodejson" /\ Returned
    /\ ResultsWritten = 1
    /\ call.results[1].rank_address = 30
    /\ call.results[1].place_id = Some(1)
    /\ Len(rows_of(call.results[1].address_rows)) = 1
    /\ rows_of(call.results[1].address_rows)[1].rank_address = 27
    /\ \E j \in MemberIdx(out, GeocodingObject(1)) :
          out[j] = Ev("keyval", <<"s","t","r","e","e","t">>, <<"n">>)
    /\ \E j \in MemberIdx(out, GeocodingObject(1)) :
          out[j] = Ev("keyval", s_type, <<"h","o","u","s","e">>)

(***************************************************************************)
(* The seven rules of the label resolver, as an ordered list.              *)
(***************************************************************************)
HasPlaceTag(extratags) == ~IsNone(extratags) /\ s_place \in DOMAIN Get(extratags)

RuleApplies(n, category, extratags, rank, country) ==
    CASE n = 1 -> rank < 26 /\ HasPlaceTag(extratags)
      [] n = 2 -> category = <<s_boundary, s_administrative>>
      [] n = 3 -> category[2] = s_postal_code
      [] n = 4 -> rank < 26
      [] n = 5 -> 26 <= rank /\ rank < 28
      [] n = 6 -> /\ category[1] = s_place
                  /\ category[2] \in {s_house_number, s_house_name, s_country_code}
      [] n = 7 -> TRUE

RuleLabel(n, category, extratags, rank, country) ==
    CASE n = 1 -> Get(extratags)[s_place]
      [] n = 2 -> IF ~IsNone(country) /\ <<Get(country), rank \div 2>> \in DOMAIN ADMIN_LABELS
                    THEN ADMIN_LABELS[<<Get(country), rank \div 2>>]
                  ELSE IF << <<>>, rank \div 2>> \in DOMAIN ADMIN_LABELS
                    THEN ADMIN_LABELS[<< <<>>, rank \div 2>>]
                  ELSE <<"A","d","m","i","n","i","s","t","r","a","t","i","v","e">>
      [] n = 3 -> <<"p","o","s","t","c","o","d","e">>
      [] n = 4 -> IF category[2] = s_yes THEN category[1] ELSE category[2]
      [] n = 5 -> <<"r","o","a","d">>
      [] n = 6 -> category[2]
      [] n = 7 -> category[1]

FirstRule(category, extratags, rank, country) ==
    CHOOSE n \in 1..7 :
        /\ RuleApplies(n, category, extratags, rank, country)
        /\ \A m \in 1..(n - 1) : ~RuleApplies(m, category, extratags, rank, country)

\* no upper-case letter and no space is left, and nothing else has changed
IsNormalised(label, from) ==
    /\ Len(label) = Len(from)
    /\ \A i \in 1..Len(from) :
          IF from[i] = " " THEN label[i] = "_"
          ELSE IF from[i] \in DOMAIN UpperToLower THEN label[i] = UpperToLower[from[i]]
          ELSE label[i] = from[i]

(***************************************************************************)
(* C2.  get_label_tag always returns the label of the first matching rule  *)
(* of the seven, lowercased and with spaces replaced by underscores; with  *)
(* rank_address < 26 and extratags {'place': 'X'} it returns 'x' whatever  *)
(* the category.                                                           *)
(***************************************************************************)
C2_FirstMatchingRule ==
    pc = "done"
        => /\ ret.kind = "value"
           /\ IsNormalised(ret.val,
                           RuleLabel(FirstRule(call.category, call.extratags, call.rank,
                                               call.country),
                                     call.category, call.extratags, call.rank, call.country))
           /\ (call.rank < 26 /\ call.extratags = Some(s_place :> <<"X">>))
                => ret.val = <<"x">>

C2_Witness ==
    /\ pc = "done"
    /\ call.rank = 25
    /\ call.extratags = Some(s_place :> <<"X">>)
    /\ call.category = <<s_boundary, s_administrative>>
    /\ ret = Value(<<"x">>)

(***************************************************************************)
(* C3.  As claimed: ('amenity', 'restaurant') at rank_address 30, without  *)
(* a 'place' extratag, has the label 'restaurant'.                         *)
(***************************************************************************)
IsRestaurantAt30 ==
    /\ call.category = <<s_amenity, s_restaurant>>
    /\ call.rank = 30
    /\ ~HasPlaceTag(call.extratags)

C3_Original ==
    (pc = "done" /\ IsRestaurantAt30)
        => ret = Value(<<"r","e","s","t","a","u","r","a","n","t">>)

(***************************************************************************)
(* C3, amended.  ('amenity', 'restaurant') at rank_address 30, without a   *)
(* 'place' extratag and for any country code, has the label 'amenity':     *)
(* at rank 28 and above the primary tag is the label.                      *)
(***************************************************************************)
C3_RestaurantAt30IsAmenity ==
    (pc = "done" /\ IsRestaurantAt30)
        => ret = Value(<<"a","m","e","n","i","t","y">>)

C3_Witness ==
    /\ pc = "done" /\ IsRestaurantAt30
    /\ call.country = Some(s_de)
    /\ call.extratags = Some(s_query :> <<"q">>)
=============================================================================
